---------------------------- MODULE Spec2Model ----------------------------
(***************************************************************************)
(* Onboarding and channel-gate flow of the bot's user start router         *)
(* (bot/handlers/user/start.py).                                           *)
(*                                                                         *)
(* Text is modelled as a sequence of one-character strings, so that the    *)
(* three start-payload grammars are matched character by character.        *)
(* A null integer (Python None for an id) is 0, a null channel is "none",  *)
(* a null text is the empty sequence.                                      *)
(*                                                                         *)
(* The middleware hands every handler a translator (i18n_instance) and the *)
(* dispatcher binds the bot to every event; a callback carries its message.*)
(***************************************************************************)
EXTENDS Integers, Sequences, FiniteSets, TLC

(***************************************************************************)
(* Characters and the character classes of the regular expressions.        *)
(***************************************************************************)
Digit == {"0", "1", "2", "3", "4", "5", "6", "7", "8", "9"}

AsciiLetter == {"A", "B", "S", "V", "E", "U", "a", "e", "f", "m", "o", "p", "r", "u"}

\* [A-Za-z0-9]
AlNum == Digit \cup AsciiLetter

\* [A-Za-z0-9_\-]
AdChar == AlNum \cup {"_", "-"}

\* \w of a Python 3 str pattern: letters of any script, digits, underscore.
\* "e'" stands for a non-ASCII letter.
WordChar == AlNum \cup {"_", "e'"}

Whitespace == {" "}

DigitVal(c) == CASE c = "0" -> 0 [] c = "1" -> 1 [] c = "2" -> 2 [] c = "3" -> 3
                 [] c = "4" -> 4 [] c = "5" -> 5 [] c = "6" -> 6 [] c = "7" -> 7
                 [] c = "8" -> 8 [] OTHER -> 9

(***************************************************************************)
(* Program constants of the three grammars.                                *)
(***************************************************************************)
RefCodeLen == 9

AdMinLen == 2

AdMaxLen == 64

REF_ == <<"r", "e", "f", "_">>

PROMO_ == <<"p", "r", "o", "m", "o", "_">>

(***************************************************************************)
(* String helpers.                                                         *)
(***************************************************************************)
StartsWith(s, pre) == Len(s) >= Len(pre) /\ SubSeq(s, 1, Len(pre)) = pre

Drop(s, n) == SubSeq(s, n + 1, Len(s))

AllIn(s, C) == \A i \in 1..Len(s) : s[i] \in C

Rep(c, n) == [i \in 1..n |-> c]

\* str.isdigit(): non-empty and every character a digit.
isdigit(s) == Len(s) >= 1 /\ AllIn(s, Digit)

\* int(s) of a digit string (leading zeros allowed).
RECURSIVE int(_)
int(s) == IF Len(s) = 0 THEN 0
          ELSE 10 * int(SubSeq(s, 1, Len(s) - 1)) + DigitVal(s[Len(s)])

\* str.strip(): leading and trailing whitespace removed.
RECURSIVE strip(_)
strip(s) == IF Len(s) = 0 THEN s
            ELSE IF s[1] \in Whitespace THEN strip(Drop(s, 1))
            ELSE IF s[Len(s)] \in Whitespace THEN strip(SubSeq(s, 1, Len(s) - 1))
            ELSE s

\* c.lower() for the one letter the code compares.
lower(c) == IF c = "U" THEN "u" ELSE c

(***************************************************************************)
(* The three filters of start_command_handler.  Each yields the captured   *)
(* group 1, or the empty sequence when the pattern does not match (every   *)
(* pattern's group is non-empty when it matches).                          *)
(***************************************************************************)
\* ^ref_((?:[uU][A-Za-z0-9]{9})|(?:[A-Za-z0-9]{9})|\d+)$
RefRegex(args) ==
    IF ~StartsWith(args, REF_) THEN <<>>
    ELSE LET g == Drop(args, Len(REF_)) IN
         IF \/ (Len(g) = RefCodeLen + 1 /\ g[1] \in {"u", "U"} /\ AllIn(Drop(g, 1), AlNum))
            \/ (Len(g) = RefCodeLen /\ AllIn(g, AlNum))
            \/ (Len(g) >= 1 /\ AllIn(g, Digit))
         THEN g ELSE <<>>

\* ^promo_(\w+)$
PromoRegex(args) ==
    IF ~StartsWith(args, PROMO_) THEN <<>>
    ELSE LET g == Drop(args, Len(PROMO_)) IN
         IF Len(g) >= 1 /\ AllIn(g, WordChar) THEN g ELSE <<>>

\* The ad-tag pattern with the negative lookahead left out (a faulty variant).
AdRegexNoLookahead(args) ==
    IF Len(args) >= AdMinLen /\ Len(args) <= AdMaxLen /\ AllIn(args, AdChar)
    THEN args ELSE <<>>

\* ^(?!ref_|promo_)([A-Za-z0-9_\-]{2,64})$
AdRegex(args) ==
    IF StartsWith(args, REF_) \/ StartsWith(args, PROMO_) THEN <<>>
    ELSE IF Len(args) >= AdMinLen /\ Len(args) <= AdMaxLen /\ AllIn(args, AdChar)
    THEN args ELSE <<>>

\* The router tries the registrations in the order they were made; the
\* decorators apply bottom-up, so the ad-tag filter is tried first, then the
\* promo filter, then the referral filter, then the bare CommandStart().
\* The handler receives the match of the one registration that fired.
Filters(args) ==
    IF AdRegex(args) # <<>>
    THEN [ref_match |-> <<>>, promo_match |-> <<>>, ad_param_match |-> AdRegex(args)]
    ELSE IF PromoRegex(args) # <<>>
    THEN [ref_match |-> <<>>, promo_match |-> PromoRegex(args), ad_param_match |-> <<>>]
    ELSE IF RefRegex(args) # <<>>
    THEN [ref_match |-> RefRegex(args), promo_match |-> <<>>, ad_param_match |-> <<>>]
    ELSE [ref_match |-> <<>>, promo_match |-> <<>>, ad_param_match |-> <<>>]


(***************************************************************************)
(* Bounds of the model and the small sets the inputs are drawn from.       *)
(***************************************************************************)
\* Number of inbound events handled in one run.
MaxEvents == 2

Tasks == {"t1", "t2"}

\* User 1 sends the events; users 2 and 3 are stored users who refer.
ActingUsers == {1}

Channels == {"A", "B"}

Langs == {"en", "ru"}

\* The values the external sanitizer returned for username, first and last name.
BaseProfile == [username |-> "alice", first_name |-> "Alice", last_name |-> "L"]

Profiles == {BaseProfile, [username |-> "al1ce", first_name |-> "Alice", last_name |-> ""]}

NUMERIC == <<"1", "2", "3", "4", "5", "6", "7", "8", "9">>

\* Referral codes of the stored users (users.referral_code): nine
\* alphanumeric characters each, one starting with u, one with U, one made of
\* digits only.
referral_code(uid) == IF uid = 1 THEN <<"u">> \o Rep("A", RefCodeLen - 1)
                      ELSE IF uid = 2 THEN Rep("A", RefCodeLen)
                      ELSE IF uid = 4 THEN <<"U">> \o Rep("B", RefCodeLen - 1)
                      ELSE IF uid = 5 THEN NUMERIC
                      ELSE <<"1">> \o Rep("A", RefCodeLen - 1)

\* What an event says of its sender: the current language and the profile.
\* Each differs from the stored row in one respect at most; two events reach
\* the rest.
Senders == {s \in [current_lang : Langs, profile : Profiles] :
               s.current_lang = "en" \/ s.profile = BaseProfile}

PROMO_TOKEN == <<"S", "A", "V", "E", "2", "0">>

\* Start payloads of the flow: none, a referral code, a promo code, a bare
\* numeric token.
StartPayloads == {<<>>,
                  REF_ \o referral_code(2),
                  PROMO_ \o PROMO_TOKEN,
                  <<"1", "2", "3", "4", "5", "6", "7", "8", "9">>}

(***************************************************************************)
(* The user table.  A row is a record; "rowid" tells two rows of one       *)
(* identity apart.  NoRow stands for Python None.                          *)
(***************************************************************************)
Row(uid, lang, prof, ref, ver, verfor, checked, reg, rid) ==
    [user_id |-> uid, username |-> prof.username, first_name |-> prof.first_name,
     last_name |-> prof.last_name, language_code |-> lang, referred_by_id |-> ref,
     channel_subscription_verified |-> ver,
     channel_subscription_verified_for |-> verfor,
     channel_subscription_checked_at |-> checked,
     registration_date |-> reg, rowid |-> rid]

NoRow == Row(0, "en", BaseProfile, 0, FALSE, "none", 0, 0, 0 - 1)

StoredRow(uid) == Row(uid, "en", BaseProfile, 0, FALSE, "none", 0, 0, 0)

\* user_dal.get_user_by_id
get_user_by_id(users, uid) ==
    IF \E r \in users : r.user_id = uid
    THEN CHOOSE r \in users : r.user_id = uid
    ELSE NoRow

\* user_dal.get_user_by_referral_code
get_user_by_referral_code(users, code) ==
    IF \E r \in users : referral_code(r.user_id) = code
    THEN CHOOSE r \in users : referral_code(r.user_id) = code
    ELSE NoRow

(***************************************************************************)
(* A session's uncommitted work: rows inserted, columns set on the acting  *)
(* user's row, ad attributions and promo activations.                      *)
(***************************************************************************)
NoFields == [f \in {} |-> 0]

EmptyPending == [ins |-> {}, upd |-> NoFields, attr |-> {}, promo |-> {}]

\* Columns of `new` laid over those of `old`.
Overlay(old, new) ==
    [f \in (DOMAIN old) \cup (DOMAIN new) |-> IF f \in DOMAIN new THEN new[f] ELSE old[f]]

\* UPDATE users SET <upd> WHERE user_id = uid
ApplyUpdate(users, uid, upd) ==
    {IF r.user_id = uid THEN Overlay(r, upd) ELSE r : r \in users}


\* session.commit(): the session's work becomes part of the stored tables.
Commit(d, pend, uid) ==
    [users |-> ApplyUpdate(d.users \cup pend.ins, uid, pend.upd),
     attr  |-> d.attr \cup pend.attr,
     promo |-> d.promo \cup pend.promo]

(***************************************************************************)
(* State.                                                                  *)
(*   settings  the configuration values the handlers read                  *)
(*   db        the committed tables: users, ad attributions, promo uses    *)
(*   pending   per task, the uncommitted work of its session               *)
(*   task      per task, the handler's local variables, its position (pc)  *)
(*             and a record of what the event did                          *)
(*   clock     number of events dispatched so far (also the time "now")    *)
(*   rq        the attribution resolver run on its own (SpecResolve)       *)
(*   render    the render pipeline run on its own (SpecRender)             *)
(***************************************************************************)
VARIABLES settings, db, pending, task, clock, rq, render

vars == <<settings, db, pending, task, clock, rq, render>>

NewTask(kind, uid, args, lang, prof) ==
    [kind |-> kind, pc |-> "idle", event |-> 0, user_id |-> uid, args |-> args,
     data |-> "",
     current_lang |-> lang, profile |-> prof,
     referred_by_user_id |-> 0, promo_code_to_apply |-> <<>>, ad_start_param |-> <<>>,
     db_user |-> NoRow, first_contact |-> FALSE, created |-> FALSE,
     create_fault |-> "none",
     is_active_now |-> FALSE, sub_active |-> FALSE,
     is_member |-> FALSE, now |-> 0,
     gate |-> "none", required |-> "none", queried |-> {}, query |-> "none",
     prompt |-> "none",
     reply_markup |-> "none",
     ad |-> "none", welcome |-> FALSE, promo |-> "none", menu |-> FALSE,
     writes |-> {}, outcome |-> "none", fault |-> "none"]

IdleTask == NewTask("idle", 0, <<>>, "en", BaseProfile)

NoRq == [phase |-> "off", args |-> <<>>, user_id |-> 0,
         referred_by_user_id |-> 0, promo_code_to_apply |-> <<>>, ad_start_param |-> <<>>]

\* No render pipeline is being followed.
NoRender == [proc |-> "none", event |-> "Message", message |-> TRUE, photo |-> FALSE,
             is_edit |-> FALSE, has_image |-> FALSE, i18n |-> TRUE,
             as_caption |-> FALSE, photo_arg |-> FALSE,
             pc |-> "off", calls |-> <<>>, outcome |-> "none", fault |-> "none"]

\* What the table holds for user 1 when the bot starts: nothing, a plain row,
\* or a row whose verification cache names channel A.
PlainUser1 == {{}, {StoredRow(1)}}

InitUser1 == PlainUser1 \cup
             {{[StoredRow(1) EXCEPT !.channel_subscription_verified = TRUE,
                                    !.channel_subscription_verified_for = "A"]}}

\* The gate alone reads the administrator set and the cache, and only when a
\* channel is required: without a channel one administrator set and the
\* plain row stand for all.  An administrator's cache is never read.  While
\* no record names a channel the two channels are alike, and A stands for both.
InitCommon ==
    /\ settings \in [REQUIRED_CHANNEL_ID : {"none"} \cup Channels,
                     ADMIN_IDS : {{2}, {1, 2}},
                     LEGACY_REFS : {FALSE},
                     DISABLE_WELCOME_MESSAGE : BOOLEAN]
    /\ settings.ADMIN_IDS = {1, 2} => settings.REQUIRED_CHANNEL_ID = "A"
    /\ \E u1 \in InitUser1 :
          /\ u1 \in PlainUser1 <=> \/ settings.REQUIRED_CHANNEL_ID = "none"
                                   \/ settings.ADMIN_IDS = {1, 2}
                                   \/ settings.REQUIRED_CHANNEL_ID = "A" /\ u1 \in PlainUser1
          /\ db = [users |-> {StoredRow(2), StoredRow(3)} \cup u1, attr |-> {}, promo |-> {}]
    /\ pending = [t \in Tasks |-> EmptyPending]
    /\ task = [t \in Tasks |-> IdleTask]
    /\ clock = 0

Init == InitCommon /\ rq = NoRq /\ render = NoRender

(***************************************************************************)
(* Attribution resolver: lines 441-468 of start_command_handler.           *)
(***************************************************************************)
\* A faulty variant of lines 446-462: the legacy flag is not read.
referred_by_any_flag(raw_ref_value, user_id, LEGACY_REFS, users) ==
    IF isdigit(raw_ref_value)
    THEN LET potential_referrer_id == int(raw_ref_value) IN
         IF potential_referrer_id # user_id
            /\ get_user_by_id(users, potential_referrer_id) # NoRow
         THEN potential_referrer_id ELSE 0
    ELSE 0

\* A faulty variant of lines 446-462: the referrer is not compared with the
\* acting user.
referred_by_self_allowed(raw_ref_value, user_id, LEGACY_REFS, users) ==
    IF isdigit(raw_ref_value)
    THEN IF LEGACY_REFS
         THEN LET potential_referrer_id == int(raw_ref_value) IN
              IF get_user_by_id(users, potential_referrer_id) # NoRow
              THEN potential_referrer_id ELSE 0
         ELSE 0
    ELSE LET stripped == strip(raw_ref_value)
             normalized_code == IF Len(stripped) > 0 /\ lower(stripped[1]) = "u"
                                THEN Drop(stripped, 1) ELSE stripped
             ref_user == IF Len(normalized_code) > 0
                         THEN get_user_by_referral_code(users, normalized_code)
                         ELSE NoRow
         IN IF ref_user # NoRow THEN ref_user.user_id ELSE 0

\* lines 446-462
referred_by(raw_ref_value, user_id, LEGACY_REFS, users) ==
    IF isdigit(raw_ref_value)
    THEN IF LEGACY_REFS
         THEN LET potential_referrer_id == int(raw_ref_value) IN
              IF potential_referrer_id # user_id
                 /\ get_user_by_id(users, potential_referrer_id) # NoRow
              THEN potential_referrer_id ELSE 0
         ELSE 0
    ELSE LET stripped == strip(raw_ref_value)
             normalized_code == IF Len(stripped) > 0 /\ lower(stripped[1]) = "u"
                                THEN Drop(stripped, 1) ELSE stripped
             ref_user == IF Len(normalized_code) > 0
                         THEN get_user_by_referral_code(users, normalized_code)
                         ELSE NoRow
         IN IF ref_user # NoRow /\ ref_user.user_id # user_id
            THEN ref_user.user_id ELSE 0

Intent(m, user_id, LEGACY_REFS, users) ==
    IF m.ref_match # <<>>
    THEN [referred_by_user_id |-> referred_by(m.ref_match, user_id, LEGACY_REFS, users),
          promo_code_to_apply |-> <<>>, ad_start_param |-> <<>>]
    ELSE IF m.promo_match # <<>>
    THEN [referred_by_user_id |-> 0, promo_code_to_apply |-> m.promo_match,
          ad_start_param |-> <<>>]
    ELSE IF m.ad_param_match # <<>>
    THEN [referred_by_user_id |-> 0, promo_code_to_apply |-> <<>>,
          ad_start_param |-> m.ad_param_match]
    ELSE [referred_by_user_id |-> 0, promo_code_to_apply |-> <<>>, ad_start_param |-> <<>>]



(***************************************************************************)
(* Handlers run on one event loop: the code between two awaits runs        *)
(* without interruption.  An action is a stretch of a handler that touches *)
(* the shared tables at most once; awaits on the messaging API and on the  *)
(* other collaborators, whose outcome no other task can influence, are     *)
(* drawn inside the action.  The operators below are the straight-line     *)
(* stretches; each yields the task's record with pc naming the stretch     *)
(* that comes next, "return" when the handler returns and "raise" when an  *)
(* exception leaves it.                                                    *)
(***************************************************************************)
Col(cond, name, val) == IF cond THEN [f \in {name} |-> val] ELSE NoFields

\* The gate returned True / False to its caller (lines 571-574, 645-648).
Allow(tk) == [tk EXCEPT !.gate = "allow", !.pc = "tail"]

\* A faulty variant of the callers' test of the gate's answer: the flow goes on.
BlockFallsThrough(tk, why) == [tk EXCEPT !.gate = why, !.pc = "tail"]

Block(tk, why) == [tk EXCEPT !.gate = why, !.pc = "return"]

\* A faulty variant of the cache test: the channel the cache names is not compared.
CacheHitAnyChannel(db_user, required_channel_id) ==
    db_user.channel_subscription_verified

\* lines 295-297
CacheHit(db_user, required_channel_id) ==
    /\ db_user.channel_subscription_verified
    /\ db_user.channel_subscription_verified_for = required_channel_id

\* A faulty variant of lines 288-298: the cache is not consulted.
GateCachedAlwaysQueries(tk) ==
    IF tk.db_user = NoRow THEN Allow(tk) ELSE [tk EXCEPT !.pc = "gate_query"]

\* ensure_required_channel_subscription, lines 288-298
GateCached(tk) ==
    IF tk.db_user = NoRow THEN Allow(tk)
    ELSE IF CacheHit(tk.db_user, tk.required) THEN Allow(tk)
    ELSE [tk EXCEPT !.pc = "gate_query"]

\* A faulty variant of lines 252-287: administrators are checked like anyone.
GateEntryAdminsChecked(tk) ==
    LET g == [tk EXCEPT !.required = settings.REQUIRED_CHANNEL_ID] IN
    IF g.required = "none" THEN Allow(g)
    ELSE IF g.db_user = NoRow THEN [g EXCEPT !.pc = "gate_fetch"]
    ELSE GateCached(g)

\* ensure_required_channel_subscription, lines 252-287.  Events reach the
\* handlers through the dispatcher, which binds the bot to them, so the
\* "bot instance missing" return of lines 267-271 is not taken.
GateEntry(tk) ==
    LET g == [tk EXCEPT !.required = settings.REQUIRED_CHANNEL_ID] IN
    IF g.required = "none" THEN Allow(g)
    ELSE IF g.user_id \in settings.ADMIN_IDS THEN Allow(g)
    ELSE IF g.db_user = NoRow THEN [g EXCEPT !.pc = "gate_fetch"]
    ELSE GateCached(g)

\* lines 556-573
AfterUpsert(tk) ==
    IF tk.ad_start_param # <<>> THEN [tk EXCEPT !.pc = "ad"] ELSE GateEntry(tk)

\* line 529
NeedsActiveCheck(tk) == tk.referred_by_user_id # 0 /\ tk.db_user.referred_by_id = 0

\* A faulty variant of lines 524-541: the locale is written whether or not
\* it changed.
update_payload_always_locale(tk) ==
    Overlay(Overlay(Overlay(Overlay(
        Col(TRUE, "language_code", tk.current_lang),
        Col(NeedsActiveCheck(tk) /\ ~tk.is_active_now, "referred_by_id", tk.referred_by_user_id)),
        Col(tk.profile.username # tk.db_user.username, "username", tk.profile.username)),
        Col(tk.profile.first_name # tk.db_user.first_name, "first_name", tk.profile.first_name)),
        Col(tk.profile.last_name # tk.db_user.last_name, "last_name", tk.profile.last_name))

\* lines 524-541
update_payload(tk) ==
    Overlay(Overlay(Overlay(Overlay(
        Col(tk.db_user.language_code # tk.current_lang, "language_code", tk.current_lang),
        Col(NeedsActiveCheck(tk) /\ ~tk.is_active_now, "referred_by_id", tk.referred_by_user_id)),
        Col(tk.profile.username # tk.db_user.username, "username", tk.profile.username)),
        Col(tk.profile.first_name # tk.db_user.first_name, "first_name", tk.profile.first_name)),
        Col(tk.profile.last_name # tk.db_user.last_name, "last_name", tk.profile.last_name))

\* lines 475, 523-543: an absent row is created; a stored row is compared
\* with the event, after the subscription lookup when a referrer may be set.
AfterFetch(tk) ==
    IF tk.db_user = NoRow THEN [tk EXCEPT !.pc = "create"]
    ELSE IF NeedsActiveCheck(tk) \/ DOMAIN update_payload(tk) # {}
    THEN [tk EXCEPT !.pc = "update"]
    ELSE AfterUpsert(tk)

\* lines 476-484
user_data_to_create(tk) ==
    Row(tk.user_id, tk.current_lang, tk.profile, tk.referred_by_user_id,
        FALSE, "none", 0, clock, tk.event)

\* send_main_menu (lines 92-238) as its callers see it: with the translator
\* present every call it makes is guarded, so it returns.
send_main_menu(tk) == [tk EXCEPT !.menu = TRUE, !.pc = "return"]

Raise(tk, what) == [tk EXCEPT !.pc = "raise", !.fault = what]

(***************************************************************************)
(* Leaving a handler.  The session belongs to the layer that called the    *)
(* handler: it commits the session when the handler returns and rolls it   *)
(* back when an exception leaves the handler.                              *)
(***************************************************************************)
\* What is known of an event once its handler is left: the handler's local
\* variables are gone, the record of what it did stays.
Done(tk) ==
    [NewTask(tk.kind, tk.user_id, <<>>, "en", BaseProfile) EXCEPT
        !.pc = "done", !.event = tk.event, !.data = tk.data,
        !.outcome = IF tk.pc = "return" THEN "returned" ELSE "raised",
        !.fault = tk.fault, !.first_contact = tk.first_contact, !.created = tk.created,
        !.create_fault = tk.create_fault,
        !.gate = tk.gate, !.required = tk.required, !.queried = tk.queried, !.query = tk.query,
        !.prompt = tk.prompt, !.reply_markup = tk.reply_markup,
        !.ad = tk.ad, !.welcome = tk.welcome, !.promo = tk.promo, !.menu = tk.menu,
        !.writes = tk.writes]

Leave(t, tk, pend, d) ==
    /\ task' = [task EXCEPT ![t] = Done(tk)]
    /\ db' = IF tk.pc = "return" THEN Commit(d, pend, tk.user_id) ELSE d
    /\ pending' = [pending EXCEPT ![t] = EmptyPending]

\* The state after an action of task t: its record, its session's pending
\* work and the committed tables.
Step(t, tk, pend, d) ==
    IF tk.pc \in {"return", "raise"}
    THEN Leave(t, tk, pend, d)
    ELSE /\ task' = [task EXCEPT ![t] = tk]
         /\ db' = d
         /\ pending' = [pending EXCEPT ![t] = pend]

\* Another session holds uncommitted changes of this user's row: a write to
\* the row waits until that session commits or rolls back.
RowLocked(t, uid) ==
    \E o \in Tasks \ {t} :
        /\ task[o].user_id = uid
        /\ (pending[o].ins # {} \/ DOMAIN pending[o].upd # {})

\* An event is taken by a task that handles none; the second task is used
\* only while the first is busy.
Free(t) ==
    /\ task[t].pc \in {"idle", "done"}
    /\ clock < MaxEvents
    /\ (t = "t2" => task["t1"].pc \notin {"idle", "done"})

(***************************************************************************)
(* start_command_handler                                                   *)
(***************************************************************************)
\* lines 423-474: a start event arrives; the payload is resolved (the lookups
\* of lines 450 and 459) and the acting user's row is read (line 474).
start_command_handler(t, payloads, senders) ==
    /\ Free(t)
    /\ \E uid \in ActingUsers, args \in payloads, from \in senders :
          LET it == Intent(Filters(args), uid, settings.LEGACY_REFS, db.users)
              tk == [NewTask("start", uid, args, from.current_lang, from.profile) EXCEPT
                        !.event = clock + 1,
                        !.referred_by_user_id = it.referred_by_user_id,
                        !.promo_code_to_apply = it.promo_code_to_apply,
                        !.ad_start_param = it.ad_start_param,
                        !.db_user = get_user_by_id(db.users, uid),
                        !.first_contact = (get_user_by_id(db.users, uid) = NoRow)]
          IN Step(t, AfterFetch(tk), EmptyPending, db)
    /\ clock' = clock + 1
    /\ UNCHANGED <<settings, rq, render>>

\* A faulty variant of the handler of lines 516-522: the fault is not caught.
on_create_error_uncaught(tk, sent) == Raise(tk, "create_user")

\* A faulty variant of lines 491-498 and 516-522: the flow goes on.
on_create_error_goes_on(tk, sent) == AfterUpsert(tk)

\* lines 516-522 (and 491-498): the generic error is reported and the handler
\* returns; message.answer itself may fault.
on_create_error(tk, sent) ==
    IF sent THEN [tk EXCEPT !.pc = "return", !.prompt = "error_occurred_processing_request"]
    ELSE Raise(tk, "send")

\* user_dal.create_user, an atomic create-if-absent: the row the table holds
\* for the identity, or the new row.
create_user(users, user_data) ==
    IF get_user_by_id(users, user_data.user_id) # NoRow
    THEN [user |-> get_user_by_id(users, user_data.user_id), created |-> FALSE]
    ELSE [user |-> user_data, created |-> TRUE]

\* line 486.  While another session holds an uncommitted row of the identity
\* the call waits.
create_user_step(t) ==
    /\ task[t].pc = "create"
    /\ ~RowLocked(t, task[t].user_id)
    /\ \E raises \in BOOLEAN :
       \E sent \in IF raises THEN BOOLEAN ELSE {TRUE} :
          LET tk == task[t]
              res == create_user(db.users, user_data_to_create(tk))
          IN IF raises
             THEN Step(t, on_create_error([tk EXCEPT !.create_fault = "create_user"], sent),
                       pending[t], db)
             ELSE IF res.created
             THEN Step(t, [tk EXCEPT !.db_user = res.user, !.created = TRUE,
                                     !.writes = @ \cup {<<"upsert", "row">>},
                                     !.pc = "commit_new"],
                       [pending[t] EXCEPT !.ins = {res.user}], db)
             ELSE Step(t, AfterUpsert([tk EXCEPT !.db_user = res.user]), pending[t], db)
    /\ UNCHANGED <<settings, clock, rq, render>>

\* lines 488-515: the new row is committed; the registration notice that
\* follows is sent inside its own try/except.
commit_new_user(t) ==
    /\ task[t].pc = "commit_new"
    /\ \E commit_ok \in BOOLEAN :
       \E sent \in IF commit_ok THEN {TRUE} ELSE BOOLEAN :
          LET tk == task[t] IN
          IF commit_ok
          THEN Step(t, AfterUpsert(tk), EmptyPending, Commit(db, pending[t], tk.user_id))
          ELSE Step(t, on_create_error([tk EXCEPT !.create_fault = "commit"], sent),
                    EmptyPending, db)
    /\ UNCHANGED <<settings, clock, rq, render>>

\* lines 530-533: the lookup's answer, False when it raises.
is_active_now(result) == result = "true"

\* lines 529-554: has_active_subscription when a referrer may be set
\* (sub_active records what the user's subscription really is at that
\* moment), then user_dal.update_user with the changed columns; a fault of
\* the update is logged and the flow goes on.
update_user_step(t) ==
    /\ task[t].pc = "update"
    /\ ~RowLocked(t, task[t].user_id)
    /\ \E active \in IF NeedsActiveCheck(task[t]) THEN BOOLEAN ELSE {FALSE} :
       \E raises \in IF NeedsActiveCheck(task[t]) THEN BOOLEAN ELSE {FALSE} :
       \E ok \in BOOLEAN :
          LET result == IF raises THEN "raise" ELSE IF active THEN "true" ELSE "false"
              tk == IF NeedsActiveCheck(task[t])
                    THEN [task[t] EXCEPT !.sub_active = active,
                                         !.is_active_now = is_active_now(result)]
                    ELSE task[t]
              pl == update_payload(tk)
          IN IF ok /\ DOMAIN pl # {}
             THEN Step(t, AfterUpsert([tk EXCEPT !.writes = @ \cup {<<"upsert", f>> : f \in DOMAIN pl}]),
                       [pending[t] EXCEPT !.upd = Overlay(@, pl)], db)
             ELSE Step(t, AfterUpsert(tk), pending[t], db)
    /\ UNCHANGED <<settings, clock, rq, render>>

\* lines 557-569: the campaign is looked up; when it exists and is active the
\* attribution is recorded and the session committed; a fault anywhere rolls
\* the session back.
ad_attribution(t) ==
    /\ task[t].pc = "ad"
    /\ \E raises \in BOOLEAN :
       \E campaign \in IF raises THEN {"absent"} ELSE {"absent", "inactive", "active"} :
          LET tk == [task[t] EXCEPT !.ad = IF raises THEN "fault"
                                          ELSE IF campaign = "active" THEN "active"
                                          ELSE "skipped"] IN
          IF raises
          THEN Step(t, GateEntry(tk), EmptyPending, db)
          ELSE IF campaign = "active"
          THEN Step(t, GateEntry([tk EXCEPT !.writes = @ \cup {<<"ad", "attribution">>}]),
                    EmptyPending,
                    Commit(db, [pending[t] EXCEPT !.attr = @ \cup {<<tk.user_id, tk.ad_start_param>>}],
                           tk.user_id))
          ELSE Step(t, GateEntry(tk), pending[t], db)
    /\ UNCHANGED <<settings, clock, rq, render>>

(***************************************************************************)
(* ensure_required_channel_subscription                                    *)
(***************************************************************************)
allowed_statuses == {"creator", "administrator", "member", "restricted"}

Statuses == allowed_statuses \cup {"left", "kicked"}

QueryFaults == {"TelegramBadRequest", "TelegramForbiddenError", "TelegramAPIError"}

\* lines 276-287: the gate reads the row itself when the caller passed none.
gate_fetch(t) ==
    /\ task[t].pc = "gate_fetch"
    /\ \E raises \in BOOLEAN :
          LET tk == task[t] IN
          IF raises
          THEN Step(t, Block(tk, "fail"), pending[t], db)
          ELSE Step(t, GateCached([tk EXCEPT !.db_user = get_user_by_id(db.users, tk.user_id)]),
                    pending[t], db)
    /\ UNCHANGED <<settings, clock, rq, render>>

\* lines 316-361.  start.py binds none of the names TelegramBadRequest,
\* TelegramForbiddenError, TelegramAPIError (imports, lines 1-36): when
\* get_chat_member raises, evaluating the first except clause raises
\* NameError, and that exception leaves the gate and the handler.
on_query_fault(tk, fault) == Raise(tk, "NameError")

\* A faulty variant of lines 363-367: every result is stored as a membership.
cache_payload_always_verified(tk) ==
    [channel_subscription_checked_at |-> tk.now,
     channel_subscription_verified_for |-> tk.required,
     channel_subscription_verified |-> TRUE]

\* A faulty variant of lines 363-367: the result of the query is not stored.
cache_payload_never_verified(tk) ==
    [channel_subscription_checked_at |-> tk.now,
     channel_subscription_verified_for |-> tk.required,
     channel_subscription_verified |-> FALSE]

\* A faulty variant of lines 363-367: the gate also writes the locale.
cache_payload_with_locale(tk) ==
    [channel_subscription_checked_at |-> tk.now,
     channel_subscription_verified_for |-> tk.required,
     channel_subscription_verified |-> tk.is_member,
     language_code |-> tk.current_lang]

\* lines 363-367
cache_payload(tk) ==
    [channel_subscription_checked_at |-> tk.now,
     channel_subscription_verified_for |-> tk.required,
     channel_subscription_verified |-> tk.is_member]

\* lines 387-416: the join prompt with the channel keyboard.  For a message
\* event the send is not guarded; for a callback every call is.
Prompt(tk, sent) ==
    IF sent
    THEN Block([tk EXCEPT !.prompt = "channel_subscription_required",
                          !.reply_markup = "REQUIRED_CHANNEL_LINK"], "block")
    ELSE IF tk.kind = "start" THEN Raise(tk, "send")
    ELSE Block(tk, "block")

\* lines 305-416: the live membership query; the result is stored (a fault
\* of the store is logged and ignored); the gate then allows a member and
\* prompts anyone else.
gate_query(t) ==
    /\ task[t].pc = "gate_query"
    /\ ~RowLocked(t, task[t].user_id)
    /\ \E r \in Statuses \cup QueryFaults :
       \E ok \in IF r \in QueryFaults THEN {TRUE} ELSE BOOLEAN,
          sent \in IF r \in allowed_statuses \cup QueryFaults THEN {TRUE} ELSE BOOLEAN :
          LET tk == [task[t] EXCEPT !.now = clock, !.queried = @ \cup {task[t].required},
                                    !.query = IF r \in allowed_statuses THEN "member"
                                              ELSE IF r \in Statuses THEN "not_member"
                                              ELSE r,
                                    !.is_member = (r \in allowed_statuses)]
              pl == cache_payload(tk)
              pend == IF ok THEN [pending[t] EXCEPT !.upd = Overlay(@, pl)] ELSE pending[t]
              tk1 == IF ok THEN [tk EXCEPT !.writes = @ \cup {<<"gate", f>> : f \in DOMAIN pl}]
                     ELSE tk
          IN IF r \in QueryFaults
             THEN Step(t, on_query_fault(tk, r), pending[t], db)
             ELSE IF tk.is_member
             THEN Step(t, Allow(tk1), pend, db)
             ELSE Step(t, Prompt(tk1, sent), pend, db)
    /\ UNCHANGED <<settings, clock, rq, render>>


(***************************************************************************)
(* After the gate.                                                         *)
(***************************************************************************)
\* A faulty variant of lines 616-630: a refused promo code ends the event.
on_promo_failure_returns(tk) == [tk EXCEPT !.pc = "return"]

\* lines 616-630: after the rollback of line 617 or 623 the handler falls
\* through to the main menu.
on_promo_failure(tk) == send_main_menu(tk)

\* lines 576-630: the welcome message (not guarded), then the promo code of
\* the payload: apply_promo_code; on success commit, subscription details,
\* the success message and return; a refusal, or any fault inside the try,
\* rolls back and falls through to the main menu.
start_after_gate(t) ==
    /\ task[t].pc = "tail"
    /\ task[t].kind = "start"
    /\ \E sent \in IF settings.DISABLE_WELCOME_MESSAGE THEN {TRUE} ELSE BOOLEAN :
       \E res \in IF sent /\ task[t].promo_code_to_apply # <<>>
                  THEN {"success", "failure", "raise"} ELSE {"none"} :
       \E after \in IF res = "success"
                    THEN {"ok", "commit_fault", "details_fault", "send_fault"} ELSE {"none"} :
          LET tk == [task[t] EXCEPT !.welcome = ~settings.DISABLE_WELCOME_MESSAGE]
              applied == [pending[t] EXCEPT !.promo = @ \cup {<<tk.user_id, tk.promo_code_to_apply>>}]
          IN IF ~settings.DISABLE_WELCOME_MESSAGE /\ ~sent
             THEN Step(t, Raise(task[t], "send"), pending[t], db)
             ELSE IF tk.promo_code_to_apply = <<>>
             THEN Step(t, send_main_menu(tk), pending[t], db)
             ELSE IF res = "success" /\ after = "ok"
             THEN Step(t, [tk EXCEPT !.promo = "applied",
                                     !.prompt = "promo_code_applied_success_full",
                                     !.pc = "return"],
                       EmptyPending, Commit(db, applied, tk.user_id))
             ELSE IF res = "success" /\ after # "commit_fault"
             THEN Step(t, send_main_menu([tk EXCEPT !.promo = "applied"]),
                       EmptyPending, Commit(db, applied, tk.user_id))
             ELSE Step(t, on_promo_failure([tk EXCEPT !.promo = IF res = "success"
                                                                THEN "commit_fault"
                                                                ELSE "failed"]),
                       EmptyPending, db)
    /\ UNCHANGED <<settings, clock, rq, render>>

(***************************************************************************)
(* The callback handlers of the router.                                    *)
(***************************************************************************)
CallbackTask(kind, uid, data) ==
    [NewTask(kind, uid, <<>>, "en", BaseProfile) EXCEPT !.data = data, !.event = clock + 1]

\* lines 633-648: the "verify" button.
verify_channel_subscription_callback(t) ==
    /\ Free(t)
    /\ \E uid \in ActingUsers :
          LET tk == [CallbackTask("verify", uid, "channel_subscription:verify") EXCEPT
                        !.db_user = get_user_by_id(db.users, uid)]
          IN Step(t, GateEntry(tk), EmptyPending, db)
    /\ clock' = clock + 1
    /\ UNCHANGED <<settings, rq, render>>

\* lines 650-681: the welcome message (not guarded), the success alert
\* (guarded), the main menu.
verify_after_gate(t) ==
    /\ task[t].pc = "tail"
    /\ task[t].kind = "verify"
    /\ \E sent \in IF settings.DISABLE_WELCOME_MESSAGE THEN {TRUE} ELSE BOOLEAN :
          LET tk == [task[t] EXCEPT !.welcome = ~settings.DISABLE_WELCOME_MESSAGE] IN
          IF ~settings.DISABLE_WELCOME_MESSAGE /\ ~sent
          THEN Step(t, Raise(task[t], "send"), pending[t], db)
          ELSE Step(t, send_main_menu(tk), pending[t], db)
    /\ UNCHANGED <<settings, clock, rq, render>>

\* lines 767-810: "set_lang_<code>".  update_user_language answers whether
\* the row was found; each callback.answer may fault, the one of line 792
\* inside the try, the one of line 803 outside any.  The main menu follows
\* without a gate check.
select_language_callback_handler(t) ==
    /\ Free(t)
    /\ \E uid \in ActingUsers, lang_code \in Langs, raises \in BOOLEAN :
       \E answered \in IF raises THEN {FALSE} ELSE BOOLEAN :
       \E answered_err \in IF answered THEN {TRUE} ELSE BOOLEAN :
          LET tk == [CallbackTask("set_lang", uid, "set_lang_") EXCEPT !.current_lang = lang_code]
              updated == get_user_by_id(db.users, uid) # NoRow
              wrote == ~raises /\ updated
              pend == IF wrote
                      THEN [EmptyPending EXCEPT !.upd = Col(TRUE, "language_code", lang_code)]
                      ELSE EmptyPending
              tk1 == IF wrote THEN [tk EXCEPT !.writes = {<<"set_lang", "language_code">>}] ELSE tk
          IN /\ ~RowLocked(t, uid)
             /\ IF raises \/ ~answered
                THEN IF answered_err
                     THEN Step(t, [tk1 EXCEPT !.pc = "return"], pend, db)
                     ELSE Step(t, Raise(tk1, "send"), pend, db)
                ELSE IF updated
                THEN Step(t, send_main_menu(tk1), pend, db)
                ELSE Step(t, [tk1 EXCEPT !.pc = "return"], pend, db)
    /\ clock' = clock + 1
    /\ UNCHANGED <<settings, rq, render>>

\* lines 815-840: "main_action:back_to_main".  The menu is drawn by editing
\* the message, or by a new message when the edit fails; that send is not
\* guarded.  No gate check.
back_to_main_handler(t) ==
    /\ Free(t)
    /\ \E uid \in ActingUsers, edited \in BOOLEAN :
       \E sent \in IF edited THEN {TRUE} ELSE BOOLEAN :
          LET tk == CallbackTask("back_to_main", uid, "main_action:back_to_main") IN
          IF edited \/ sent
          THEN Step(t, [tk EXCEPT !.menu = TRUE, !.pc = "return"], EmptyPending, db)
          ELSE Step(t, Raise(tk, "send"), EmptyPending, db)
    /\ clock' = clock + 1
    /\ UNCHANGED <<settings, rq, render>>

\* lines 843-897: the callbacks "main_action:<action>" that no earlier
\* registration took.  "main_action:back_to_main" is taken by
\* back_to_main_handler, registered before this handler; of the actions that
\* draw the main menu "back_to_main_keep" is the one that arrives here.
main_action_callback_handler(t) ==
    /\ Free(t)
    /\ \E uid \in ActingUsers :
          Step(t, send_main_menu(CallbackTask("main_action", uid, "main_action:back_to_main_keep")),
               EmptyPending, db)
    /\ clock' = clock + 1
    /\ UNCHANGED <<settings, rq, render>>

(***************************************************************************)
(* The system.                                                             *)
(***************************************************************************)
\* Events handled one after the other, with every input of the flow.
Next ==
    \E t \in {"t1"} :
        \/ start_command_handler(t, StartPayloads, Senders)
        \/ create_user_step(t)
        \/ commit_new_user(t)
        \/ update_user_step(t)
        \/ ad_attribution(t)
        \/ gate_fetch(t)
        \/ gate_query(t)
        \/ start_after_gate(t)
        \/ verify_channel_subscription_callback(t)
        \/ verify_after_gate(t)
        \/ select_language_callback_handler(t)
        \/ back_to_main_handler(t)
        \/ main_action_callback_handler(t)

Spec == Init /\ [][Next]_vars

\* Two start events of one user handled at the same time, with the payloads
\* that name a referrer or none and the profile the table holds.
RacePayloads == {<<>>, REF_ \o referral_code(2), REF_ \o referral_code(3)}

NextRace ==
    \E t \in Tasks :
        \/ start_command_handler(t, RacePayloads, {[current_lang |-> "en", profile |-> BaseProfile]})
        \/ create_user_step(t)
        \/ commit_new_user(t)
        \/ update_user_step(t)
        \/ gate_query(t)
        \/ start_after_gate(t)

SpecRace == Init /\ [][NextRace]_vars

(***************************************************************************)
(* The attribution resolver on its own: one start event of user 1 whose    *)
(* payload is drawn from the shapes the three grammars tell apart, with    *)
(* the legacy-referral flag on or off.                                     *)
(***************************************************************************)
\* What may follow the prefix (or stand alone): nothing, digits (the id of
\* the acting user, of a stored user, of nobody), the referral codes with
\* and without the u/U prefix, a promo code, a letter of another script,
\* tokens at the edges of the ad-tag length, a hyphen, a blank.
Tokens == {<<>>, NUMERIC, <<"1">>, <<"2">>, <<"7">>, <<"7", "7">>,
           referral_code(1), referral_code(2), referral_code(3),
           <<"u">> \o referral_code(2), <<"U">> \o referral_code(3),
           <<"u">> \o referral_code(1),
           referral_code(4), <<"u">> \o referral_code(4), <<"U">> \o referral_code(5),
           <<"S", "A", "V", "E", "2", "0">>, <<"e'">>, <<"a">>, <<"a", "b">>,
           <<"a", "-", "b">>, <<"a", " ", "b">>, <<"a", "_", "b">>,
           Rep("A", AdMaxLen), Rep("A", AdMaxLen + 1),
           Rep("A", AdMaxLen - Len(REF_)), Rep("A", AdMaxLen - Len(PROMO_))}

ResolvePayloads ==
    Tokens \cup {REF_ \o k : k \in Tokens} \cup {PROMO_ \o k : k \in Tokens}
           \cup {<<"r", "e", "f">> \o k : k \in {<<>>, NUMERIC}}
           \cup {<<"p", "r", "o", "m", "o">> \o k : k \in {<<>>, NUMERIC}}

InitResolve ==
    /\ settings \in [REQUIRED_CHANNEL_ID : {"none"}, ADMIN_IDS : {{2}},
                     LEGACY_REFS : BOOLEAN, DISABLE_WELCOME_MESSAGE : {FALSE}]
    /\ db = [users |-> {StoredRow(u) : u \in 1..5}, attr |-> {}, promo |-> {}]
    /\ pending = [t \in Tasks |-> EmptyPending]
    /\ task = [t \in Tasks |-> IdleTask]
    /\ clock = 0
    /\ rq \in {[NoRq EXCEPT !.phase = "event", !.args = a, !.user_id = 1] : a \in ResolvePayloads}
    /\ render = NoRender

\* lines 419-468: the filters pick the match, the resolver sets at most one
\* of its three results.
resolve ==
    /\ rq.phase = "event"
    /\ LET it == Intent(Filters(rq.args), rq.user_id, settings.LEGACY_REFS, db.users)
       IN rq' = [rq EXCEPT !.phase = "resolved",
                           !.referred_by_user_id = it.referred_by_user_id,
                           !.promo_code_to_apply = it.promo_code_to_apply,
                           !.ad_start_param = it.ad_start_param]
    /\ UNCHANGED <<settings, db, pending, task, clock, render>>

NextResolve == resolve

SpecResolve == InitResolve /\ [][NextResolve]_vars

(***************************************************************************)
(* Referral payloads alone: start events of user 1, stored or not, whose   *)
(* payload names the user, another user or nobody, by number or by code,   *)
(* with the legacy-referral flag on or off and no channel required.        *)
(***************************************************************************)
ReferPayloads == {REF_ \o k : k \in {<<"1">>, <<"2">>, <<"7">>, NUMERIC,
                                     referral_code(1), <<"u">> \o referral_code(1),
                                     referral_code(2), <<"U">> \o referral_code(3)}}

InitRefer ==
    /\ settings \in [REQUIRED_CHANNEL_ID : {"none"}, ADMIN_IDS : {{2}},
                     LEGACY_REFS : BOOLEAN, DISABLE_WELCOME_MESSAGE : {TRUE}]
    /\ \E u1 \in PlainUser1 :
          db = [users |-> {StoredRow(2), StoredRow(3)} \cup u1, attr |-> {}, promo |-> {}]
    /\ pending = [t \in Tasks |-> EmptyPending]
    /\ task = [t \in Tasks |-> IdleTask]
    /\ clock = 0
    /\ rq = NoRq
    /\ render = NoRender

NextRefer ==
    \E t \in {"t1"} :
        \/ start_command_handler(t, ReferPayloads, {[current_lang |-> "en", profile |-> BaseProfile]})
        \/ create_user_step(t)
        \/ commit_new_user(t)
        \/ update_user_step(t)
        \/ start_after_gate(t)

SpecRefer == InitRefer /\ [][NextRefer]_vars

(***************************************************************************)
(* The render pipeline on its own: send_main_menu, reply_or_edit and       *)
(* edit_photo_menu, one messaging-API call per step.  A call ends well or  *)
(* raises; what the pipeline does next is in the code's try blocks.        *)
(*   proc       the function being followed                                *)
(*   event      what it was called with: a Message or a CallbackQuery      *)
(*   message    the callback carries its message                           *)
(*   photo      that message holds a photo                                 *)
(*   pc         the line of the call about to be made                      *)
(*   calls      the calls made so far, each with how it ended              *)
(***************************************************************************)
\* How a call of the messaging API ends: well, with the client error
\* (TelegramBadRequest), or with another fault of the API.
ApiResults == {"ok", "TelegramBadRequest", "TelegramNetworkError"}

EditCalls == {"edit_caption", "edit_media", "edit_text",
              "edit_message_caption", "edit_message_media"}

SendCalls == {"answer", "answer_photo", "send_photo", "send_message"}

\* The calls that answer the callback query.
AckCalls == {"callback.answer"}

\* What the three functions may be called with.  A Message is its own
\* message; a callback may have lost its message, and then holds no photo.
\* edit_photo_menu reads callback.message before anything else.
RenderInputs ==
    {r \in [proc : {"send_main_menu", "reply_or_edit", "edit_photo_menu"},
            event : {"Message", "CallbackQuery"},
            message : BOOLEAN, photo : BOOLEAN,
            is_edit : BOOLEAN, has_image : BOOLEAN, i18n : BOOLEAN,
            as_caption : BOOLEAN, photo_arg : BOOLEAN,
            pc : {"entry"}, calls : {<<>>}, outcome : {"running"}, fault : {"none"}] :
        /\ r.event = "Message" => r.proc = "send_main_menu" /\ r.message /\ ~r.photo
        /\ ~r.message => ~r.photo
        /\ r.proc = "send_main_menu" => ~r.as_caption /\ ~r.photo_arg
        /\ r.proc = "reply_or_edit" => ~r.is_edit /\ ~r.has_image /\ r.i18n /\ ~r.photo_arg
        /\ r.proc = "edit_photo_menu" =>
              r.message /\ ~r.is_edit /\ ~r.has_image /\ r.i18n /\ ~r.as_caption}

IsCallback(r) == r.event = "CallbackQuery"

\* lines 140-144: message_obj
message_obj(r) == r.event = "Message" \/ r.message

At(r, line) == [r EXCEPT !.pc = line]

Returned(r) == [r EXCEPT !.pc = "done", !.outcome = "returned"]

Raised(r, res) == [r EXCEPT !.pc = "done", !.outcome = "raised", !.fault = res]

\* The call at r.pc was made and ended with res.
Called(r, name, res) == [r EXCEPT !.calls = Append(@, <<name, res>>)]

\* lines 233-238: the callback is answered when the event is one.
Acknowledge(r) == IF IsCallback(r) THEN At(r, "L236") ELSE Returned(r)

\* lines 156-161: the edit tried first, chosen by what the message holds.
first_edit_always_media(r) == "L161"
first_edit(r) == IF r.photo THEN "L157" ELSE "L161"

\* lines 108-218: the first call send_main_menu makes.
send_main_menu_entry(r) ==
    IF ~r.i18n
    THEN IF IsCallback(r) THEN (IF r.message THEN "L113" ELSE "L114") ELSE "L116"
    ELSE IF r.has_image
         THEN IF r.is_edit /\ message_obj(r) THEN first_edit(r)
              ELSE IF IsCallback(r) /\ r.message THEN "L184"
              ELSE IF r.event = "Message" THEN "L193"
              ELSE "L200"
         ELSE IF message_obj(r) THEN "L208" ELSE "L216"

\* lines 169-177: a new photo after the edit failed.
send_new_photo(r) == IF IsCallback(r) /\ r.message THEN At(r, "L171") ELSE At(r, "L173")

\* lines 92-238: the call at r.pc ended with res.
send_main_menu_call(r, res) ==
    CASE r.pc = "L113" ->
            IF res = "ok" THEN At(Called(r, "answer", res), "L114")
            ELSE Raised(Called(r, "answer", res), res)
      [] r.pc = "L114" ->
            IF res = "ok" THEN Returned(Called(r, "callback.answer", res))
            ELSE Raised(Called(r, "callback.answer", res), res)
      [] r.pc = "L116" ->
            IF res = "ok" THEN Returned(Called(r, "answer", res))
            ELSE Raised(Called(r, "answer", res), res)
      [] r.pc = "L157" ->
            IF res = "ok" THEN Acknowledge(Called(r, "edit_caption", res))
            ELSE send_new_photo(Called(r, "edit_caption", res))
      [] r.pc = "L161" ->
            IF res = "ok" THEN Acknowledge(Called(r, "edit_media", res))
            ELSE send_new_photo(Called(r, "edit_media", res))
      [] r.pc \in {"L171", "L173", "L193"} -> Acknowledge(Called(r, "answer_photo", res))
      [] r.pc = "L184" ->
            IF res = "ok" THEN Acknowledge(Called(r, "answer_photo", res))
            ELSE At(Called(r, "answer_photo", res), "L188")
      [] r.pc \in {"L188", "L200"} -> Acknowledge(Called(r, "send_photo", res))
      [] r.pc = "L208" ->
            IF res = "ok" THEN Acknowledge(Called(r, "edit_text", res))
            ELSE At(Called(r, "edit_text", res), "L211")
      [] r.pc = "L211" -> Acknowledge(Called(r, "answer", res))
      [] r.pc = "L216" ->
            IF res = "ok" THEN Acknowledge(Called(r, "callback.answer", res))
            ELSE At(Called(r, "callback.answer", res), "L227")
      [] r.pc = "L227" -> Acknowledge(Called(r, "callback.answer", res))
      [] r.pc = "L236" -> Returned(Called(r, "callback.answer", res))

\* lines 58-65: the first call reply_or_edit makes.
reply_or_edit_entry(r) ==
    IF ~r.message THEN "L60"
    ELSE IF r.as_caption /\ r.photo THEN "L67" ELSE "L74"

\* lines 40-89: the call at r.pc ended with res.
reply_or_edit_call(r, res) ==
    CASE r.pc = "L60" ->
            IF res = "ok" THEN Returned(Called(r, "send_message", res))
            ELSE Raised(Called(r, "send_message", res), res)
      [] r.pc = "L67" ->
            IF res = "ok" THEN Returned(Called(r, "edit_caption", res))
            ELSE At(Called(r, "edit_caption", res), "L74")
      [] r.pc = "L74" ->
            IF res = "ok" THEN Returned(Called(r, "edit_text", res))
            ELSE At(Called(r, "edit_text", res), "L81")
      [] r.pc = "L81" ->
            IF res = "ok" THEN At(Called(r, "send_message", res), "L83")
            ELSE Returned(Called(r, "send_message", res))
      [] r.pc = "L83" -> Returned(Called(r, "delete", res))

\* edit_message.py lines 28, 43: after the caption edit was refused.
after_caption(r) == IF r.photo_arg THEN At(r, "E31") ELSE At(r, "E43")

\* edit_message.py lines 4-47: the call at r.pc ended with res.  The two
\* try blocks catch TelegramBadRequest alone, from the edit and from the
\* answer inside them; the last edit and answer are outside every try.
edit_photo_menu_call(r, res) ==
    CASE r.pc = "E16" ->
            IF res = "ok" THEN At(Called(r, "edit_message_caption", res), "E22")
            ELSE IF res = "TelegramBadRequest"
                 THEN after_caption(Called(r, "edit_message_caption", res))
                 ELSE Raised(Called(r, "edit_message_caption", res), res)
      [] r.pc = "E22" ->
            IF res = "ok" THEN Returned(Called(r, "callback.answer", res))
            ELSE IF res = "TelegramBadRequest"
                 THEN after_caption(Called(r, "callback.answer", res))
                 ELSE Raised(Called(r, "callback.answer", res), res)
      [] r.pc = "E31" ->
            IF res = "ok" THEN At(Called(r, "edit_message_media", res), "E37")
            ELSE IF res = "TelegramBadRequest"
                 THEN At(Called(r, "edit_message_media", res), "E43")
                 ELSE Raised(Called(r, "edit_message_media", res), res)
      [] r.pc = "E37" ->
            IF res = "ok" THEN Returned(Called(r, "callback.answer", res))
            ELSE IF res = "TelegramBadRequest"
                 THEN At(Called(r, "callback.answer", res), "E43")
                 ELSE Raised(Called(r, "callback.answer", res), res)
      [] r.pc = "E43" ->
            IF res = "ok" THEN At(Called(r, "edit_text", res), "E47")
            ELSE Raised(Called(r, "edit_text", res), res)
      [] r.pc = "E47" ->
            IF res = "ok" THEN Returned(Called(r, "callback.answer", res))
            ELSE Raised(Called(r, "callback.answer", res), res)

RenderUnchanged == UNCHANGED <<settings, db, pending, task, clock, rq>>

\* start.py lines 92-238, one call at a time.
send_main_menu_render ==
    /\ render.proc = "send_main_menu" /\ render.outcome = "running"
    /\ \E res \in ApiResults :
          render' = send_main_menu_call(
                        IF render.pc = "entry" THEN At(render, send_main_menu_entry(render))
                        ELSE render, res)
    /\ RenderUnchanged

\* start.py lines 40-89, one call at a time.
reply_or_edit ==
    /\ render.proc = "reply_or_edit" /\ render.outcome = "running"
    /\ \E res \in ApiResults :
          render' = reply_or_edit_call(
                        IF render.pc = "entry" THEN At(render, reply_or_edit_entry(render))
                        ELSE render, res)
    /\ RenderUnchanged

\* edit_message.py lines 4-47, one call at a time.
edit_photo_menu ==
    /\ render.proc = "edit_photo_menu" /\ render.outcome = "running"
    /\ \E res \in ApiResults :
          render' = edit_photo_menu_call(
                        IF render.pc = "entry" THEN At(render, "E16") ELSE render, res)
    /\ RenderUnchanged

InitRender ==
    /\ settings \in [REQUIRED_CHANNEL_ID : {"none"}, ADMIN_IDS : {{2}},
                     LEGACY_REFS : {FALSE}, DISABLE_WELCOME_MESSAGE : {FALSE}]
    /\ db = [users |-> {StoredRow(1)}, attr |-> {}, promo |-> {}]
    /\ pending = [t \in Tasks |-> EmptyPending]
    /\ task = [t \in Tasks |-> IdleTask]
    /\ clock = 0
    /\ rq = NoRq
    /\ render \in RenderInputs

NextRender ==
    \/ send_main_menu_render
    \/ reply_or_edit
    \/ edit_photo_menu

SpecRender == InitRender /\ [][NextRender]_vars

(***************************************************************************)
(* Properties.                                                             *)
(***************************************************************************)
UserRows(uid) == {r \in db.users : r.user_id = uid}

Wrote(tk, phase, column) == <<phase, column>> \in tk.writes

\* C1: once a user's referred_by_id is non-null, no step of any start event,
\* handled alone or at the same time as another, changes its value.
C1_ReferrerNeverOverwritten ==
    [][\A r \in db.users :
          r.referred_by_id # 0 =>
             \A q \in db'.users :
                q.user_id = r.user_id => q.referred_by_id = r.referred_by_id]_vars

\* The case of C1: two start events of the stored user 1 read the row while
\* it named no referrer; the first wrote referrer 2 and was committed, the
\* second, resolved to referrer 3, has not written yet.
C1_TwoReferralsInFlight ==
    /\ task["t1"].kind = "start" /\ task["t1"].pc = "done"
    /\ Wrote(task["t1"], "upsert", "referred_by_id")
    /\ get_user_by_id(db.users, 1).referred_by_id = 2
    /\ task["t2"].kind = "start" /\ task["t2"].pc = "update"
    /\ task["t2"].referred_by_user_id = 3
    /\ task["t2"].db_user # NoRow /\ task["t2"].db_user.referred_by_id = 0

\* C2: a start event of a stored user who has no referrer and holds an active
\* subscription never writes referred_by_id, whatever the subscription
\* lookup returned or raised.
C2_ActiveSubscriberNotAttributed ==
    \A t \in Tasks :
        (task[t].kind = "start" /\ task[t].sub_active /\ task[t].db_user.referred_by_id = 0)
            => ~Wrote(task[t], "upsert", "referred_by_id")

CacheColumns == {"channel_subscription_checked_at", "channel_subscription_verified_for",
                 "channel_subscription_verified"}

\* A gate check is under way or over for a stored user who is no administrator.
Gated(tk) ==
    /\ tk.pc \notin {"idle", "done"}
    /\ tk.required # "none"
    /\ tk.user_id \notin settings.ADMIN_IDS
    /\ tk.db_user # NoRow

\* C4: a gate check of a user whose record is verified for the configured
\* channel allows, and no membership query is made during the check, in the
\* first event as in a later one.
C4_CacheHitAllowsWithoutQuery ==
    \A t \in Tasks :
        (/\ Gated(task[t])
         /\ task[t].db_user.channel_subscription_verified
         /\ task[t].db_user.channel_subscription_verified_for = task[t].required)
            => (task[t].gate = "allow" /\ task[t].queried = {})

\* The case of C4: the first event queried and stored "verified" for the
\* configured channel; the second event's check found that record and allowed.
C4_SecondCheckHitsCache ==
    /\ Gated(task["t1"])
    /\ task["t1"].event = 2
    /\ task["t1"].db_user.channel_subscription_verified
    /\ task["t1"].db_user.channel_subscription_verified_for = task["t1"].required
    /\ task["t1"].db_user.channel_subscription_checked_at = 1
    /\ task["t1"].gate = "allow"

C6_BlockedStartStops ==
    \A t \in Tasks :
        (task[t].kind = "start" /\ task[t].gate # "allow")
            => (~task[t].welcome /\ task[t].promo = "none" /\ ~task[t].menu)

\* The case of C6: with the welcome message enabled, a start event ended with
\* the gate's prompt.
C6_StartEndedAtPrompt ==
    /\ ~settings.DISABLE_WELCOME_MESSAGE
    /\ task["t1"].kind = "start" /\ task["t1"].pc = "done"
    /\ task["t1"].gate = "block"
    /\ task["t1"].prompt = "channel_subscription_required"

\* A start event in which the gate answered Block.
BlockedStart(tk) == tk.kind = "start" /\ tk.gate = "block"

C8_MenuOnlyAfterGate ==
    \A t \in Tasks :
        (/\ settings.REQUIRED_CHANNEL_ID # "none"
         /\ task[t].menu
         /\ task[t].user_id \notin settings.ADMIN_IDS
         /\ get_user_by_id(db.users, task[t].user_id) # NoRow)
            => task[t].gate = "allow"

\* The three results the resolver left unset.
NoIntent == rq.referred_by_user_id = 0 /\ rq.promo_code_to_apply = <<>> /\ rq.ad_start_param = <<>>

\* C9 as stated: with the legacy flag off, a payload made of digits only
\* resolves to no intent.
C9_NumericResolvesToNone ==
    (rq.phase = "resolved" /\ ~settings.LEGACY_REFS /\ isdigit(rq.args)) => NoIntent

\* C9 amended: a payload of 2 to 64 digits resolves to the ad tag made of
\* those digits, whatever the legacy flag; a numeric id after ref_ resolves
\* to no intent when the flag is off.
C9_NumericIsAdTagUnlessRefForm ==
    rq.phase = "resolved" =>
        /\ (isdigit(rq.args) /\ Len(rq.args) >= AdMinLen /\ Len(rq.args) <= AdMaxLen)
              => (/\ rq.ad_start_param = rq.args
                  /\ rq.referred_by_user_id = 0
                  /\ rq.promo_code_to_apply = <<>>)
        /\ (~settings.LEGACY_REFS /\ StartsWith(rq.args, REF_)
                /\ isdigit(Drop(rq.args, Len(REF_))))
              => NoIntent

\* The case of C9: the payload 123456789 resolved with the flag off.
C9_BareNumberResolved ==
    /\ rq.phase = "resolved" /\ ~settings.LEGACY_REFS
    /\ rq.args = NUMERIC
    /\ rq.ad_start_param = NUMERIC

\* C10: the resolver sets at most one of its three results; a payload that
\* starts with ref_ or promo_ sets no ad tag; a payload no grammar matches,
\* the absent payload included, sets none.
C10_AtMostOneIntent ==
    rq.phase = "resolved" =>
        /\ Cardinality({i \in 1..3 :
                          \/ i = 1 /\ rq.referred_by_user_id # 0
                          \/ i = 2 /\ rq.promo_code_to_apply # <<>>
                          \/ i = 3 /\ rq.ad_start_param # <<>>}) <= 1
        /\ (StartsWith(rq.args, REF_) \/ StartsWith(rq.args, PROMO_)) => rq.ad_start_param = <<>>
        /\ (RefRegex(rq.args) = <<>> /\ PromoRegex(rq.args) = <<>> /\ AdRegex(rq.args) = <<>>)
              => NoIntent

\* The case of C10: a referral payload that the ad-tag pattern would take but
\* for its prefix resolved to a referrer and to nothing else.
C10_ReferralNotAdTag ==
    /\ rq.phase = "resolved"
    /\ rq.args = REF_ \o referral_code(2)
    /\ AllIn(rq.args, AdChar) /\ Len(rq.args) <= AdMaxLen
    /\ rq.referred_by_user_id = 2
    /\ rq.promo_code_to_apply = <<>> /\ rq.ad_start_param = <<>>

\* The three payload forms of a referral code.
RefForms(c) == {REF_ \o c, REF_ \o <<"u">> \o c, REF_ \o <<"U">> \o c}

\* C11: a start payload ref_<c>, ref_u<c> or ref_U<c>, c being the code of a
\* stored user R other than the sender, resolves to the referrer R and to
\* nothing else.
C11_EveryCodeFormResolves ==
    rq.phase = "resolved" =>
        \A r \in db.users :
            (r.user_id # rq.user_id /\ rq.args \in RefForms(referral_code(r.user_id)))
                => (/\ rq.referred_by_user_id = r.user_id
                    /\ rq.promo_code_to_apply = <<>> /\ rq.ad_start_param = <<>>)

\* The case of C11 that resolves: the prefixed form of a code made of digits.
C11_PrefixedCodeResolved ==
    /\ rq.phase = "resolved"
    /\ rq.args = REF_ \o <<"U">> \o referral_code(5)
    /\ rq.referred_by_user_id = 5

\* C12: a start event whose promo code was applied and committed shows the
\* promo-success surface and draws no main menu, whatever the calls that
\* follow the commit do.
C12_PromoSuccessSkipsMenu ==
    \A t \in Tasks :
        (task[t].kind = "start" /\ task[t].promo = "applied")
            => (/\ <<task[t].user_id, PROMO_TOKEN>> \in db.promo
                /\ task[t].prompt = "promo_code_applied_success_full"
                /\ ~task[t].menu)

\* The case of C12 in which every call after the commit succeeds.
C12_PromoSurfaceShown ==
    /\ task["t1"].kind = "start" /\ task["t1"].pc = "done"
    /\ task["t1"].promo = "applied"
    /\ task["t1"].prompt = "promo_code_applied_success_full"
    /\ ~task["t1"].menu
    /\ <<1, PROMO_TOKEN>> \in db.promo

\* C13: a start event in which create_user raised or the commit of the new
\* row failed ends there: the generic error is reported (or the send of the
\* report itself faults and that exception leaves the handler), the row is
\* not stored, and no ad attribution, gate check, welcome, promo application
\* or main menu follows.
C13_CreationFaultEndsEvent ==
    \A t \in Tasks :
        task[t].create_fault # "none"
            => (/\ task[t].pc = "done"
                /\ \/ task[t].outcome = "returned"
                      /\ task[t].prompt = "error_occurred_processing_request"
                   \/ task[t].outcome = "raised" /\ task[t].fault = "send"
                /\ get_user_by_id(db.users, task[t].user_id) = NoRow
                /\ task[t].gate = "none" /\ task[t].required = "none" /\ task[t].queried = {}
                /\ ~task[t].welcome /\ task[t].promo = "none" /\ ~task[t].menu
                /\ \A w \in task[t].writes : w[1] = "upsert")

\* The case of C13: the commit of the new row failed and the error was reported.
C13_CommitFailedReported ==
    /\ task["t1"].kind = "start" /\ task["t1"].pc = "done"
    /\ task["t1"].create_fault = "commit"
    /\ task["t1"].outcome = "returned"
    /\ task["t1"].prompt = "error_occurred_processing_request"

\* C14: a start event in which the creation of the row did not fail is not
\* left by an exception: whatever faults while the welcome message, the
\* gate's prompt or the gate's error message is sent, the handler returns.
C14_OnlyCreationFaultAborts ==
    \A t \in Tasks :
        (task[t].kind = "start" /\ task[t].pc = "done" /\ task[t].create_fault = "none")
            => task[t].outcome = "returned"

\* The case of C14: the gate allowed, the welcome message was sent and the
\* main menu followed.
C14_WelcomeThenMenu ==
    /\ task["t1"].kind = "start" /\ task["t1"].pc = "done"
    /\ task["t1"].outcome = "returned"
    /\ task["t1"].gate = "allow" /\ task["t1"].welcome /\ task["t1"].menu

RenderEnded == render.outcome \in {"returned", "raised"}

Failed(r) == {i \in DOMAIN r.calls : r.calls[i][2] # "ok"}

Made(r, names) == {i \in DOMAIN r.calls : r.calls[i][1] \in names}

\* C15: the render pipeline never ends with a fault of the messaging API
\* raised to its caller, whichever of its calls fail.
C15_RenderNeverRaises == render.outcome # "raised"

\* The case of C15: every call send_main_menu made failed, the edit, the new
\* photo and the answer, and it returned.
C15_AllFailedAndReturned ==
    /\ render.proc = "send_main_menu" /\ render.outcome = "returned"
    /\ Len(render.calls) = 3 /\ Failed(render) = DOMAIN render.calls

\* C16: when send_main_menu or edit_photo_menu was run for a callback and
\* has ended, the callback was answered on the way.
C16_CallbackAnswered ==
    (RenderEnded /\ render.proc \in {"send_main_menu", "edit_photo_menu"} /\ IsCallback(render))
        => Made(render, AckCalls) # {}

\* The case of C16: the edit and the new photo failed and the callback was
\* answered all the same.
C16_AnsweredAfterFailures ==
    /\ render.proc = "send_main_menu" /\ IsCallback(render) /\ render.outcome = "returned"
    /\ Len(render.calls) = 3 /\ Failed(render) = {1, 2}
    /\ render.calls[3][1] = "callback.answer"

\* C17: in send_main_menu called to edit, with the image at hand, the one
\* edit call made is the first call, it is edit_caption when the existing
\* message holds a photo and edit_media when it does not, and when it ends
\* well no other edit and no send of a new message is made.
C17_EditChosenBySurface ==
    (render.proc = "send_main_menu" /\ render.is_edit /\ render.has_image) =>
        /\ Made(render, EditCalls) \subseteq {1}
        /\ (render.i18n /\ message_obj(render) /\ render.calls # <<>>)
              => Made(render, EditCalls) = {1}
        /\ Made(render, EditCalls) = {1} =>
              /\ render.calls[1][1] = (IF render.photo THEN "edit_caption" ELSE "edit_media")
              /\ render.calls[1][2] = "ok" => Made(render, SendCalls) = {}

\* The case of C17: a photo surface edited by its caption alone, then the
\* callback answered and nothing else.
C17_CaptionEditedAlone ==
    /\ render.proc = "send_main_menu" /\ render.is_edit /\ render.has_image /\ render.photo
    /\ render.outcome = "returned"
    /\ Len(render.calls) = 2
    /\ render.calls[1] = <<"edit_caption", "ok">>
    /\ render.calls[2][1] = "callback.answer"

\* C18: when the membership query fails because the bot lacks permission
\* or by another fault of the messaging API, the gate does not allow, the
\* verification cache is not written, and the localized check-failed message
\* is shown to the user.
C18_QueryFaultReported ==
    \A t \in Tasks :
        (task[t].pc = "done" /\ task[t].query \in {"TelegramForbiddenError", "TelegramAPIError"})
            => (/\ task[t].gate # "allow"
                /\ \A c \in CacheColumns : ~Wrote(task[t], "gate", c)
                /\ task[t].prompt = "channel_subscription_check_failed")

\* The case of C18: the query of a start event failed for lack of permission;
\* the gate did not allow and the cache of the user's row is as it was.
C18_QueryFailedForbidden ==
    /\ task["t1"].kind = "start" /\ task["t1"].pc = "done"
    /\ task["t1"].query = "TelegramForbiddenError"
    /\ task["t1"].gate # "allow"
    /\ \A r \in UserRows(1) : r.channel_subscription_verified_for = "none"

\* C19: when the membership query fails with the client error of a user who
\* is no participant, the gate treats it as it treats a status outside the
\* four member statuses: it stores verified = false for the required
\* channel, shows the join prompt and blocks; the event ends by a return,
\* not by an exception.
C19_NotParticipantIsDefinitive ==
    \A t \in Tasks :
        (task[t].pc = "done" /\ task[t].query = "TelegramBadRequest")
            => (/\ task[t].gate = "block"
                /\ task[t].outcome = "returned"
                /\ task[t].prompt = "channel_subscription_required"
                /\ \A c \in CacheColumns : Wrote(task[t], "gate", c))

\* The case of C19: the query answered a status that is no membership; the
\* row holds verified = false for the required channel, the prompt was shown
\* and the gate blocked.
C19_LeftUserBlocked ==
    /\ task["t1"].pc = "done" /\ task["t1"].query = "not_member"
    /\ task["t1"].gate = "block" /\ task["t1"].outcome = "returned"
    /\ task["t1"].prompt = "channel_subscription_required"
    /\ \E r \in UserRows(1) :
          /\ ~r.channel_subscription_verified
          /\ r.channel_subscription_verified_for = task["t1"].required
          /\ r.channel_subscription_verified_for # "none"

\* The gate has answered its caller, or has gone on to the membership query.
GateDecided(tk) ==
    /\ tk.kind \in {"start", "verify"}
    /\ \/ tk.pc \in {"gate_query", "tail"}
       \/ tk.pc = "done" /\ (tk.gate # "none" \/ tk.query # "none")

\* The gate looked the user up and found no record.
NoRecordFound(tk) ==
    /\ tk.kind = "verify"
    /\ get_user_by_id(db.users, tk.user_id) = NoRow
    /\ tk.gate # "fail"

\* C20: when no channel is required, or the acting user is an administrator,
\* or the lookup finds no record of the acting user, the gate allows and
\* get_chat_member is not called.
C20_AllowsWithoutQuery ==
    \A t \in Tasks :
        (/\ GateDecided(task[t])
         /\ \/ settings.REQUIRED_CHANNEL_ID = "none"
            \/ task[t].user_id \in settings.ADMIN_IDS
            \/ NoRecordFound(task[t]))
            => (/\ task[t].gate = "allow"
                /\ task[t].queried = {} /\ task[t].query = "none")

\* The case of C20: a channel is required and the "verify" button is pressed
\* by a user who is no administrator and has no record; the gate allowed
\* without a query and the menu was shown.
C20_UnknownUserAllowed ==
    /\ settings.REQUIRED_CHANNEL_ID # "none" /\ 1 \notin settings.ADMIN_IDS
    /\ task["t1"].kind = "verify" /\ task["t1"].pc = "done"
    /\ get_user_by_id(db.users, 1) = NoRow
    /\ task["t1"].gate = "allow" /\ task["t1"].queried = {} /\ task["t1"].menu

\* C21: a step of the ad-attribution stretch or of the stretch after the gate
\* that does not end the event by an exception keeps every column the event
\* has written to the user's row so far (by the upsert or by the gate): the
\* value is still the session's pending work or is part of the stored row.
C21_RollbackKeepsEarlierWrites ==
    [][\A t \in Tasks :
          (/\ task[t].kind = "start" /\ task[t].pc \in {"ad", "tail"}
           /\ task'[t].outcome # "raised")
              => \A f \in DOMAIN pending[t].upd :
                    \/ /\ f \in DOMAIN pending'[t].upd
                       /\ pending'[t].upd[f] = pending[t].upd[f]
                    \/ \E r \in db'.users :
                          r.user_id = task[t].user_id /\ r[f] = pending[t].upd[f]]_vars

\* The case of C21: the promo code of a first contact was refused and rolled
\* back; the row created earlier in the event is stored.
C21_CreationSurvivesPromoRollback ==
    /\ task["t1"].kind = "start" /\ task["t1"].pc = "done"
    /\ task["t1"].outcome = "returned"
    /\ task["t1"].created /\ task["t1"].promo = "failed" /\ task["t1"].menu
    /\ UserRows(1) # {}

\* C22: a start event whose ad-attribution step failed goes on to the gate
\* check and, when the gate allows, to the main menu; and an event records an
\* attribution only when the campaign was found and is active.
C22_AdFaultNeverBlocks ==
    \A t \in Tasks :
        (task[t].kind = "start" /\ task[t].pc = "done") =>
            /\ task[t].ad = "fault" =>
                  /\ task[t].gate # "none" \/ task[t].query # "none"
                  /\ task[t].gate = "allow" => task[t].menu
                  /\ <<task[t].user_id, NUMERIC>> \notin db.attr
            /\ Wrote(task[t], "ad", "attribution") => task[t].ad = "active"

\* The case of C22: the attribution step failed, the gate allowed after a
\* membership query and the menu was shown.
C22_MenuAfterAdFault ==
    /\ task["t1"].kind = "start" /\ task["t1"].pc = "done"
    /\ task["t1"].ad = "fault" /\ task["t1"].query = "member"
    /\ task["t1"].gate = "allow" /\ task["t1"].menu
    /\ db.attr = {}

\* C23: when the promo code of a start payload is refused, or the promo step
\* raises before its commit took effect, the step leaves the stored promo
\* uses as they were and nothing pending in the session, and the same event
\* goes on to the main menu and returns.
C23_PromoFailureFallsToMenu ==
    [][\A t \in Tasks :
          (task[t].pc = "tail" /\ task'[t].promo \in {"failed", "commit_fault"})
              => (/\ db'.promo = db.promo
                  /\ pending'[t] = EmptyPending
                  /\ task'[t].pc = "done" /\ task'[t].outcome = "returned"
                  /\ task'[t].event = task[t].event
                  /\ task'[t].menu)]_vars

\* The case of C23: the promo code was refused, no use of it is stored and
\* the menu was shown.
C23_RefusedThenMenu ==
    /\ task["t1"].kind = "start" /\ task["t1"].pc = "done"
    /\ task["t1"].promo = "failed" /\ task["t1"].outcome = "returned"
    /\ task["t1"].menu /\ db.promo = {}

\* Every in-place edit the run tried has failed.
EditFailed(r) == Made(r, EditCalls) # {} /\ Made(r, EditCalls) \subseteq Failed(r)

\* C24: when send_main_menu called to edit, or reply_or_edit, has ended and
\* every in-place edit it tried failed, a new message was sent after the
\* edits and, when that send ended well, the deletion of the previous
\* message was attempted after it; the run returned whatever the deletion gave.
C24_SendThenDeleteAfterFailedEdit ==
    (/\ RenderEnded
     /\ \/ render.proc = "send_main_menu" /\ render.is_edit
        \/ render.proc = "reply_or_edit"
     /\ EditFailed(render))
        => /\ render.outcome = "returned"
           /\ \E s \in Made(render, SendCalls) :
                 /\ \A e \in Made(render, EditCalls) : e < s
                 /\ render.calls[s][2] = "ok" =>
                       \E d \in Made(render, {"delete"}) : d > s

\* The case of C24: in reply_or_edit the edit failed, the new message was
\* sent, the deletion of the old one failed and the function returned.
C24_DeletionFaultSwallowed ==
    /\ render.proc = "reply_or_edit" /\ render.outcome = "returned"
    /\ render.calls = <<<<"edit_text", "TelegramBadRequest">>,
                        <<"send_message", "ok">>,
                        <<"delete", "TelegramBadRequest">>>>

PhotoCalls == {"edit_caption", "edit_media", "edit_message_caption", "edit_message_media",
               "answer_photo", "send_photo"}

\* C25: in send_main_menu without the image no photo or media call is made,
\* an in-place edit is tried only when the call is one to edit, and a run
\* that has ended on a fresh render, or after its edit failed, has sent a
\* new text message.
C25_TextFallbackOrder ==
    (render.proc = "send_main_menu" /\ render.i18n /\ ~render.has_image) =>
        /\ Made(render, PhotoCalls) = {}
        /\ Made(render, EditCalls) # {} => render.is_edit
        /\ (RenderEnded /\ message_obj(render) /\ (~render.is_edit \/ EditFailed(render)))
              => Made(render, {"answer"}) # {}

\* The case of C25: called to edit without the image, the text edit failed
\* and the menu went out as a new text message.
C25_TextSentAfterFailedEdit ==
    /\ render.proc = "send_main_menu" /\ render.is_edit /\ ~render.has_image
    /\ IsCallback(render) /\ render.outcome = "returned"
    /\ Len(render.calls) = 3
    /\ render.calls[1] = <<"edit_text", "TelegramBadRequest">>
    /\ render.calls[2] = <<"answer", "ok">>
    /\ render.calls[3][1] = "callback.answer"

UpsertColumns == {"language_code", "referred_by_id", "username", "first_name", "last_name"}

NumericReferral(args) == StartsWith(args, REF_) /\ isdigit(Drop(args, Len(REF_)))

\* C27: no row, stored or pending in a session, names its own user as the
\* referrer; and a start event with a numeric referral payload holds a
\* referrer only when the legacy flag is on and the number is the id of a
\* stored user other than the acting one.
C27_NoSelfReferral ==
    /\ \A r \in db.users : r.referred_by_id # r.user_id
    /\ \A t \in Tasks :
          /\ \A r \in pending[t].ins : r.referred_by_id # r.user_id
          /\ "referred_by_id" \in DOMAIN pending[t].upd
                => pending[t].upd.referred_by_id # task[t].user_id
          /\ (task[t].kind = "start" /\ task[t].pc \notin {"idle", "done"})
                => task[t].referred_by_user_id # task[t].user_id
          /\ (/\ task[t].kind = "start" /\ task[t].pc \notin {"idle", "done"}
              /\ NumericReferral(task[t].args)
              /\ task[t].referred_by_user_id # 0)
                => (/\ settings.LEGACY_REFS
                    /\ task[t].referred_by_user_id = int(Drop(task[t].args, Len(REF_)))
                    /\ get_user_by_id(db.users, task[t].referred_by_user_id) # NoRow)

\* The case of C27: with the legacy flag on, ref_2 has made user 2 the
\* referrer of user 1, and a later ref_1 of user 1 is being handled with no
\* referrer resolved.
C27_OwnIdNotTaken ==
    /\ settings.LEGACY_REFS
    /\ \E r \in UserRows(1) : r.referred_by_id = 2
    /\ task["t1"].kind = "start" /\ task["t1"].pc \notin {"idle", "done"}
    /\ task["t1"].args = REF_ \o <<"1">>
    /\ task["t1"].referred_by_user_id = 0

\* The membership query gave a definitive result and handing the cache tuple
\* to update_user failed: the event wrote no cache column.
PersistFailed(tk) ==
    /\ tk.query \in {"member", "not_member"}
    /\ \A c \in CacheColumns : ~Wrote(tk, "gate", c)

\* C28: when the membership query gave a definitive result and storing the
\* cache tuple failed, the gate answers as the result says: it allows a
\* member, and it shows the join prompt to anyone else and blocks.
C28_DecisionSurvivesPersistFault ==
    \A t \in Tasks :
        PersistFailed(task[t]) =>
            /\ task[t].query = "member" => task[t].gate = "allow"
            /\ task[t].query = "not_member" =>
                  /\ task[t].gate = "block"
                  /\ task[t].prompt = "channel_subscription_required"

\* The case of C28: the query found a member, the store of the cache tuple
\* failed, the gate allowed and the menu was shown; the row's cache is as it was.
C28_MemberAllowedUnstored ==
    /\ task["t1"].pc = "done" /\ PersistFailed(task["t1"])
    /\ task["t1"].query = "member" /\ task["t1"].gate = "allow" /\ task["t1"].menu
    /\ \A r \in UserRows(1) : r.channel_subscription_verified_for = "none"

\* The verify callback queried the membership, found a member and returned.
VerifiedByQuery(tk) ==
    /\ tk.kind = "verify" /\ tk.pc = "done"
    /\ tk.query = "member" /\ tk.outcome = "returned"

\* The stored row of the user is verified for the channel the event required.
RowVerified(tk) ==
    \E r \in UserRows(tk.user_id) :
        /\ r.channel_subscription_verified
        /\ r.channel_subscription_verified_for = tk.required

FoundMember(tk, uid, c) == tk.user_id = uid /\ tk.query = "member" /\ tk.required = c

\* C30: a session holds verified = true for a channel among its pending
\* writes only when its own query of that channel for that user answered a
\* member status; and every step after which a stored row is verified for a
\* channel for which it was not before is the commit of such a session.  So
\* no faulted and no not-a-member query sets verified = true, also when two
\* checks of one user run at the same time.
C30_VerifiedOnlyByMemberQuery ==
    /\ [](\A t \in Tasks :
            ("channel_subscription_verified" \in DOMAIN pending[t].upd
                /\ pending[t].upd.channel_subscription_verified)
              => FoundMember(task[t], task[t].user_id,
                             pending[t].upd.channel_subscription_verified_for))
    /\ [][\A r \in db'.users :
            (/\ r.channel_subscription_verified
             /\ \A o \in db.users :
                   o.user_id = r.user_id =>
                      ~(/\ o.channel_subscription_verified
                        /\ o.channel_subscription_verified_for
                              = r.channel_subscription_verified_for))
              => \E t \in Tasks :
                    /\ FoundMember(task[t], r.user_id, r.channel_subscription_verified_for)
                    /\ FoundMember(task'[t], r.user_id, r.channel_subscription_verified_for)]_vars

\* The case of C30: two start events of user 1 at the same time; the query
\* of the first found a member and its result is stored, the query of the
\* second failed and the row is still verified for the channel.
C30_FaultedQueryBesideMember ==
    /\ task["t1"].pc = "done" /\ task["t1"].query = "member"
    /\ task["t2"].pc = "done" /\ task["t2"].query \in QueryFaults
    /\ \E r \in UserRows(1) :
          /\ r.channel_subscription_verified
          /\ r.channel_subscription_verified_for = task["t1"].required
          /\ r.channel_subscription_verified_for = task["t2"].required

=============================================================================
